---- MODULE Spec2Model ----
(***************************************************************************)
(* mask-token: the masking engine (core/masker), the prefix registry       *)
(* (presets/registry), the preset table (presets/defaults) and the risk    *)
(* validator (core/validator).                                             *)
(*                                                                         *)
(* A JavaScript string is a sequence of one-character strings, so that     *)
(* slice, startsWith, split, repeat and the regular expressions are        *)
(* computed character by character.  A value that is only ever compared    *)
(* as a whole (a label, a preset name, a mode) is a TLA+ string.           *)
(***************************************************************************)
EXTENDS Integers, Sequences, FiniteSets, TLC

VARIABLES registry, call, result, diag

vars == <<registry, call, result, diag>>

(***************************************************************************)
(* Characters                                                              *)
(***************************************************************************)
\* U+2022, the default mask character: one character, not an ASCII one.
Bullet == "BULLET"

LowerLetters ==
  <<"a","b","c","d","e","f","g","h","i","j","k","l","m",
    "n","o","p","q","r","s","t","u","v","w","x","y","z">>

UpperLetters ==
  <<"A","B","C","D","E","F","G","H","I","J","K","L","M",
    "N","O","P","Q","R","S","T","U","V","W","X","Y","Z">>

Range(f) == { f[i] : i \in DOMAIN f }

Lower == Range(LowerLetters)

Upper == Range(UpperLetters)

Digit == {"0","1","2","3","4","5","6","7","8","9"}

HexLower == {"a","b","c","d","e","f"} \cup Digit

AlphaNum == Lower \cup Upper \cup Digit

\* \s of a JavaScript regular expression, for the characters the model uses.
Whitespace == {" ", "\t", "\n"}

\* String.prototype.toLowerCase on one character (the /i flag).
ToLowerChar(c) ==
  IF c \in Upper
    THEN LowerLetters[CHOOSE i \in DOMAIN UpperLetters : UpperLetters[i] = c]
    ELSE c

ToLower(s) == [i \in DOMAIN s |-> ToLowerChar(s[i])]

(***************************************************************************)
(* String primitives                                                       *)
(***************************************************************************)
Min(a, b) == IF a <= b THEN a ELSE b

Max(a, b) == IF a >= b THEN a ELSE b

\* String.prototype.startsWith
StartsWith(s, p) == Len(p) <= Len(s) /\ SubSeq(s, 1, Len(p)) = p

\* s.slice(n) for 0 <= n
SliceFrom(s, n) == SubSeq(s, Min(n, Len(s)) + 1, Len(s))

\* s.slice(0, n) for 0 <= n
SliceTo(s, n) == SubSeq(s, 1, Min(n, Len(s)))

\* s.slice(-n) for n > 0
SliceLast(s, n) == SubSeq(s, Max(Len(s) - n, 0) + 1, Len(s))

\* String.prototype.repeat
RECURSIVE Repeat(_, _)
Repeat(s, n) == IF n <= 0 THEN <<>> ELSE s \o Repeat(s, n - 1)

\* s.includes(p)
Includes(s, p) ==
  \E i \in 0..(Len(s) - Len(p)) : SubSeq(s, i + 1, i + Len(p)) = p

\* new Set(s).size
UniqueChars(s) == Cardinality(Range(s))

\* First index >= from at which d occurs in s, 0 when there is none.
IndexOfFrom(s, d, from) ==
  LET hits == { i \in from..(Len(s) - Len(d) + 1) : SubSeq(s, i, i + Len(d) - 1) = d }
  IN IF hits = {} THEN 0 ELSE CHOOSE i \in hits : \A j \in hits : i <= j

\* String.prototype.split with a string separator: the list of segments.
RECURSIVE SplitFrom(_, _, _)
SplitFrom(s, d, from) ==
  LET at == IndexOfFrom(s, d, from)
  IN IF at = 0
       THEN << SubSeq(s, from, Len(s)) >>
       ELSE << SubSeq(s, from, at - 1) >> \o SplitFrom(s, d, at + Len(d))

Split(s, d) ==
  IF d = <<>>
    THEN [i \in 1..Len(s) |-> << s[i] >>]
    ELSE SplitFrom(s, d, 1)

\* Array.prototype.join
RECURSIVE Join(_, _)
Join(parts, d) ==
  IF Len(parts) = 0 THEN <<>>
  ELSE IF Len(parts) = 1 THEN parts[1]
  ELSE parts[1] \o d \o Join(Tail(parts), d)

(***************************************************************************)
(* presets/registry: KNOWN_PREFIXES                                        *)
(*                                                                         *)
(* A definition is a literal prefix (kind "lit") or a regular expression   *)
(* (kind "re", matched by ReMatchLen).  minLength 0 stands for an absent   *)
(* minLength: the code tests it with `if (definition.minLength)`.          *)
(***************************************************************************)
Lit(p, n, m, c) == [kind |-> "lit", lit |-> p, re |-> "", name |-> n, minLength |-> m, category |-> c]

Re(r, n, m, c) == [kind |-> "re", lit |-> <<>>, re |-> r, name |-> n, minLength |-> m, category |-> c]

KNOWN_PREFIXES ==
  << Lit(<<"n","p","m","_">>, "NPM Token", 36, "api"),
     Lit(<<"g","h","p","_">>, "GitHub Personal Access Token", 40, "oauth"),
     Lit(<<"g","h","o","_">>, "GitHub OAuth Access Token", 40, "oauth"),
     Lit(<<"g","h","u","_">>, "GitHub User-to-Server Token", 40, "oauth"),
     Lit(<<"g","h","s","_">>, "GitHub Server-to-Server Token", 40, "api"),
     Lit(<<"g","h","r","_">>, "GitHub Refresh Token", 40, "oauth"),
     Lit(<<"g","l","p","a","t","-">>, "GitLab Personal Access Token", 20, "api"),
     Lit(<<"g","l","d","t","-">>, "GitLab Deploy Token", 20, "api"),
     Re("sk_(test|live)_", "Stripe Secret Key", 32, "secret"),
     Re("pk_(test|live)_", "Stripe Publishable Key", 32, "key"),
     Re("rk_(test|live)_", "Stripe Restricted Key", 32, "key"),
     Lit(<<"x","o","x","b","-">>, "Slack Bot Token", 50, "oauth"),
     Lit(<<"x","o","x","p","-">>, "Slack User Token", 50, "oauth"),
     Lit(<<"x","o","x","a","-">>, "Slack Access Token", 50, "oauth"),
     Lit(<<"x","o","x","r","-">>, "Slack Refresh Token", 50, "oauth"),
     Lit(<<"x","a","p","p","-">>, "Slack App-Level Token", 50, "api"),
     Lit(<<"A","K","I","A">>, "AWS Access Key ID", 20, "key"),
     Lit(<<"A","S","I","A">>, "AWS Session Token", 20, "key"),
     Lit(<<"A","I","z","a">>, "Google API Key", 39, "api"),
     Lit(<<"s","k","-">>, "OpenAI Secret Key", 48, "secret"),
     Lit(<<"s","k","-","p","r","o","j","-">>, "OpenAI Project Key", 48, "secret"),
     Lit(<<"s","k","-","a","n","t","-">>, "Anthropic API Key", 40, "secret"),
     Re("SK[a-f0-9]{32}$", "Twilio API Key", 34, "api"),
     Re("AC[a-f0-9]{32}$", "Twilio Account SID", 34, "api"),
     Lit(<<"S","G",".">>, "SendGrid API Key", 69, "api"),
     Re("heroku-uuid$", "Heroku API Key", 36, "api"),
     Lit(<<"s","h","p","a","t","_">>, "Shopify Private App Token", 32, "api"),
     Lit(<<"s","h","p","c","a","_">>, "Shopify Custom App Token", 32, "api"),
     Lit(<<"s","h","p","s","s","_">>, "Shopify Shared Secret", 32, "secret"),
     Re("vercel_[a-zA-Z0-9_]+$", "Vercel Token", 24, "api"),
     Re("nf[a-zA-Z0-9]{40,}$", "Netlify Access Token", 42, "oauth"),
     Lit(<<"d","o","p","_","v","1","_">>, "DigitalOcean Personal Access Token", 64, "api"),
     Lit(<<"d","c","k","r","_","p","a","t","_">>, "Docker Hub Personal Access Token", 36, "api"),
     Re("api[_-]?key[_-]/i", "Generic API Key", 0, "api"),
     Re("token[_-]/i", "Generic Token", 0, "api"),
     Re("secret[_-]/i", "Generic Secret", 0, "secret"),
     Re("[a-z]{2,6}_", "Generic Prefixed Token", 0, "api") >>

AllIn(s, from, to, class) == \A i \in from..to : s[i] \in class

\* Length of the leading run of lower-case letters of s.
LowerRun(s) ==
  LET stops == { i \in 1..Len(s) : s[i] \notin Lower }
  IN IF stops = {} THEN Len(s) ELSE (CHOOSE i \in stops : \A j \in stops : i <= j) - 1

\* input.match(pattern): the length of match[0], or -1 when the pattern does
\* not match.  Every pattern of the table is anchored at the start.
ReMatchLen(re, s) ==
  CASE re = "sk_(test|live)_" ->
         IF StartsWith(s, <<"s","k","_","t","e","s","t","_">>) \/ StartsWith(s, <<"s","k","_","l","i","v","e","_">>) THEN 8 ELSE -1
    [] re = "pk_(test|live)_" ->
         IF StartsWith(s, <<"p","k","_","t","e","s","t","_">>) \/ StartsWith(s, <<"p","k","_","l","i","v","e","_">>) THEN 8 ELSE -1
    [] re = "rk_(test|live)_" ->
         IF StartsWith(s, <<"r","k","_","t","e","s","t","_">>) \/ StartsWith(s, <<"r","k","_","l","i","v","e","_">>) THEN 8 ELSE -1
    [] re = "SK[a-f0-9]{32}$" ->
         IF Len(s) = 34 /\ StartsWith(s, <<"S","K">>) /\ AllIn(s, 3, 34, HexLower) THEN 34 ELSE -1
    [] re = "AC[a-f0-9]{32}$" ->
         IF Len(s) = 34 /\ StartsWith(s, <<"A","C">>) /\ AllIn(s, 3, 34, HexLower) THEN 34 ELSE -1
    [] re = "heroku-uuid$" ->
         \* /^[a-f0-9]{8}-[a-f0-9]{4}-[a-f0-9]{4}-[a-f0-9]{4}-[a-f0-9]{12}$/
         IF /\ Len(s) = 36
            /\ \A i \in {9, 14, 19, 24} : s[i] = "-"
            /\ \A i \in (1..36) \ {9, 14, 19, 24} : s[i] \in HexLower
           THEN 36 ELSE -1
    [] re = "vercel_[a-zA-Z0-9_]+$" ->
         IF /\ StartsWith(s, <<"v","e","r","c","e","l","_">>)
            /\ Len(s) >= 8
            /\ AllIn(s, 8, Len(s), AlphaNum \cup {"_"})
           THEN Len(s) ELSE -1
    [] re = "nf[a-zA-Z0-9]{40,}$" ->
         IF StartsWith(s, <<"n","f">>) /\ Len(s) >= 42 /\ AllIn(s, 3, Len(s), AlphaNum)
           THEN Len(s) ELSE -1
    [] re = "api[_-]?key[_-]/i" ->
         LET l == ToLower(s)
         IN
         IF \/ StartsWith(l, <<"a","p","i","_","k","e","y","_">>) \/ StartsWith(l, <<"a","p","i","_","k","e","y","-">>)
            \/ StartsWith(l, <<"a","p","i","-","k","e","y","_">>) \/ StartsWith(l, <<"a","p","i","-","k","e","y","-">>)
           THEN 8
         ELSE IF StartsWith(l, <<"a","p","i","k","e","y","_">>) \/ StartsWith(l, <<"a","p","i","k","e","y","-">>)
           THEN 7 ELSE -1
    [] re = "token[_-]/i" ->
         LET l == ToLower(s)
         IN IF StartsWith(l, <<"t","o","k","e","n","_">>) \/ StartsWith(l, <<"t","o","k","e","n","-">>) THEN 6 ELSE -1
    [] re = "secret[_-]/i" ->
         LET l == ToLower(s)
         IN IF StartsWith(l, <<"s","e","c","r","e","t","_">>) \/ StartsWith(l, <<"s","e","c","r","e","t","-">>) THEN 7 ELSE -1
    [] re = "[a-z]{2,6}_" ->
         LET r == LowerRun(s)
         IN IF r >= 2 /\ r <= 6 /\ Len(s) > r /\ s[r + 1] = "_" THEN r + 1 ELSE -1
    [] OTHER -> -1

\* matchPrefix: {matched, prefix}
matchPrefix(input, definition) ==
  IF definition.kind = "lit"
    THEN IF StartsWith(input, definition.lit)
           THEN [matched |-> TRUE, prefix |-> definition.lit]
           ELSE [matched |-> FALSE, prefix |-> <<>>]
    ELSE LET n == ReMatchLen(definition.re, input)
         IN IF n >= 0
              THEN [matched |-> TRUE, prefix |-> SubSeq(input, 1, n)]
              ELSE [matched |-> FALSE, prefix |-> <<>>]

(***************************************************************************)
(* presets/registry: heuristic classifier, custom registry, detectPrefix   *)
(***************************************************************************)
MIN_TOKEN_LENGTH == 16

MAX_TOKEN_LENGTH == 2048

\* /^[A-Za-z0-9_.\-/+=]+$/
TokenChars == AlphaNum \cup {"_", ".", "-", "/", "+", "="}

\* MIN_ENTROPY_RATIO = 0.3: uniqueChars / length < 0.3, in integers.
BelowEntropyRatio(s) == 10 * UniqueChars(s) < 3 * Len(s)

\* A variant of isLikelyTokenHeuristic without the character-diversity check.
isLikelyTokenNoEntropy(input) ==
  IF Len(input) < MIN_TOKEN_LENGTH THEN FALSE
  ELSE IF \E i \in DOMAIN input : input[i] \in Whitespace THEN FALSE
  ELSE IF ~(Len(input) >= 1 /\ \A i \in DOMAIN input : input[i] \in TokenChars) THEN FALSE
  ELSE TRUE

isLikelyTokenHeuristic(input) ==
  IF Len(input) < MIN_TOKEN_LENGTH THEN FALSE
  ELSE IF \E i \in DOMAIN input : input[i] \in Whitespace THEN FALSE
  ELSE IF ~(Len(input) >= 1 /\ \A i \in DOMAIN input : input[i] \in TokenChars) THEN FALSE
  ELSE IF BelowEntropyRatio(input) THEN FALSE
  ELSE TRUE

\* TokenMetadata.  prefixNull tells a null prefix from a string; confidence is
\* in hundredths (1.0 is 100).
Metadata(t, isNull, p, c, likely) ==
  [type |-> t, prefixNull |-> isNull, prefix |-> p, confidence |-> c, isLikelyToken |-> likely]

\* Index of the first entry of an ordered prefix -> name map that the input
\* starts with, 0 when there is none (the for-of loops of detectPrefix).
FirstEntry(entries, input) ==
  LET hits == { i \in DOMAIN entries : StartsWith(input, entries[i].prefix) }
  IN IF hits = {} THEN 0 ELSE CHOOSE i \in hits : \A j \in hits : i <= j

FirstKnown(input) ==
  LET hits == { i \in DOMAIN KNOWN_PREFIXES : matchPrefix(input, KNOWN_PREFIXES[i]).matched }
  IN IF hits = {} THEN 0 ELSE CHOOSE i \in hits : \A j \in hits : i <= j

\* A variant of KnownConfidence without the 80% tier.
KnownConfidenceNoTier(input, definition) ==
  IF definition.minLength # 0
    THEN IF Len(input) >= definition.minLength THEN 100 ELSE 60
    ELSE 90

\* The confidence of a static-table match, from the definition's minLength.
KnownConfidence(input, definition) ==
  IF definition.minLength # 0
    THEN IF Len(input) >= definition.minLength THEN 100
         ELSE IF 10 * Len(input) >= 8 * definition.minLength THEN 80
         ELSE 60
    ELSE 90

\* A variant of detectPrefix that looks in the registry before the per-call
\* customPrefixes.
detectPrefixRegistryFirst(input, customPrefixes, reg) ==
  IF input = <<>>
    THEN Metadata("unknown", TRUE, <<>>, 0, FALSE)
  ELSE LET c == FirstEntry(customPrefixes, input)
           r == FirstEntry(reg, input)
           k == FirstKnown(input)
       IN IF r # 0
            THEN Metadata(reg[r].name, FALSE, reg[r].prefix, 100, TRUE)
          ELSE IF c # 0
            THEN Metadata(customPrefixes[c].name, FALSE, customPrefixes[c].prefix, 100, TRUE)
          ELSE IF k # 0
            THEN LET confidence == KnownConfidence(input, KNOWN_PREFIXES[k])
                 IN Metadata(KNOWN_PREFIXES[k].name, FALSE,
                             matchPrefix(input, KNOWN_PREFIXES[k]).prefix,
                             confidence, confidence > 70)
          ELSE Metadata("unknown", TRUE, <<>>, 0, isLikelyTokenHeuristic(input))

detectPrefix(input, customPrefixes, reg) ==
  IF input = <<>>
    THEN Metadata("unknown", TRUE, <<>>, 0, FALSE)
  ELSE LET c == FirstEntry(customPrefixes, input)
           r == FirstEntry(reg, input)
           k == FirstKnown(input)
       IN IF c # 0
            THEN Metadata(customPrefixes[c].name, FALSE, customPrefixes[c].prefix, 100, TRUE)
          ELSE IF r # 0
            THEN Metadata(reg[r].name, FALSE, reg[r].prefix, 100, TRUE)
          ELSE IF k # 0
            THEN LET confidence == KnownConfidence(input, KNOWN_PREFIXES[k])
                 IN Metadata(KNOWN_PREFIXES[k].name, FALSE,
                             matchPrefix(input, KNOWN_PREFIXES[k]).prefix,
                             confidence, confidence > 70)
          ELSE Metadata("unknown", TRUE, <<>>, 0, isLikelyTokenHeuristic(input))

\* A variant of MapSet that appends an entry even when the key is present.
MapSetAppend(reg, prefix, description) ==
  Append(reg, [prefix |-> prefix, name |-> description])

\* A variant of MapSet that moves a key set again to the end, as delete
\* followed by set would.
MapSetMoveToEnd(reg, prefix, description) ==
  Append(SelectSeq(reg, LAMBDA e : e.prefix # prefix),
         [prefix |-> prefix, name |-> description])

\* Map.prototype.set on the insertion-ordered registry: an existing key keeps
\* its place and takes the new value, a new key goes last.
MapSet(reg, prefix, description) ==
  IF \E i \in DOMAIN reg : reg[i].prefix = prefix
    THEN [i \in DOMAIN reg |->
            IF reg[i].prefix = prefix
              THEN [prefix |-> prefix, name |-> description]
              ELSE reg[i]]
    ELSE Append(reg, [prefix |-> prefix, name |-> description])

\* A variant of registerPrefix that stores the entry before it looks at the
\* label.
registerPrefixStoreFirst(reg, prefix, description) ==
  IF prefix = <<>>
    THEN [threw |-> TRUE, registry |-> reg]
  ELSE [threw |-> description = "", registry |-> MapSet(reg, prefix, description)]

\* registerPrefix: the registry after the call and whether the call threw.
\* The label is compared only as a whole: "" is the empty string.
registerPrefix(reg, prefix, description) ==
  IF prefix = <<>>
    THEN [threw |-> TRUE, registry |-> reg]
  ELSE IF description = ""
    THEN [threw |-> TRUE, registry |-> reg]
  ELSE [threw |-> FALSE, registry |-> MapSet(reg, prefix, description)]

(***************************************************************************)
(* core/validator                                                          *)
(*                                                                         *)
(* A warning is its message template (tag) with the two numbers the        *)
(* template prints; MessageIncludes tells which keywords the message text  *)
(* contains.  Rules are a function from the rule names present to values.  *)
(***************************************************************************)
\* A variant of RISK_WEIGHTS in which an input over maxLength weighs nothing.
RISK_WEIGHTS_FreeTooLong ==
  [TOO_SHORT |-> 30, TOO_LONG |-> 0, HAS_WHITESPACE |-> 40, MISSING_PREFIX |-> 20,
   PATTERN_MISMATCH |-> 25, CUSTOM_CHECK_FAILED |-> 30, PLACEHOLDER_DETECTED |-> 50,
   WRONG_CREDENTIAL_TYPE |-> 40, MULTIPLE_SPACES |-> 35, LOW_ENTROPY |-> 35]

RISK_WEIGHTS ==
  [TOO_SHORT |-> 30, TOO_LONG |-> 10, HAS_WHITESPACE |-> 40, MISSING_PREFIX |-> 20,
   PATTERN_MISMATCH |-> 25, CUSTOM_CHECK_FAILED |-> 30, PLACEHOLDER_DETECTED |-> 50,
   WRONG_CREDENTIAL_TYPE |-> 40, MULTIPLE_SPACES |-> 35, LOW_ENTROPY |-> 35]

Warning(tag, a, b, score) == [tag |-> tag, a |-> a, b |-> b, score |-> score]

StartsWithAny(s, ps) == \E p \in ps : StartsWith(s, p)

HasWhitespace(s) == \E i \in DOMAIN s : s[i] \in Whitespace

\* SUSPICIOUS_PATTERNS, in table order: pattern.test(input) of the n-th entry.
SuspiciousTest(n, input) ==
  CASE n = 1 -> ToLower(input) \in { <<"u","n","d","e","f","i","n","e","d">>, <<"n","u","l","l">> }
    [] n = 2 -> StartsWithAny(ToLower(input),
                  { <<"t","e","s","t">>, <<"e","x","a","m","p","l","e">>, <<"s","a","m","p","l","e">>, <<"d","e","m","o">>, <<"p","l","a","c","e","h","o","l","d","e","r">>,
                    <<"y","o","u","r","t","o","k","e","n">>, <<"y","o","u","r","_","t","o","k","e","n">>, <<"y","o","u","r","-","t","o","k","e","n">>, <<"x","x","x">>, <<"0","0","0">> })
    [] n = 3 -> StartsWithAny(ToLower(input),
                  { <<"p","a","s","s","w","o","r","d">>, <<"u","s","e","r","n","a","m","e">>, <<"e","m","a","i","l">>, <<"u","s","e","r">>, <<"a","d","m","i","n">>, <<"r","o","o","t">> })
    [] n = 4 -> \E i \in 1..(Len(input) - 1) :
                  input[i] \in Whitespace /\ input[i + 1] \in Whitespace
    [] n = 5 -> Len(input) >= 1 /\ (input[1] \in Whitespace \/ input[Len(input)] \in Whitespace)
    [] OTHER -> FALSE

SUSPICIOUS_PATTERNS ==
  << [message |-> "SUSPICIOUS_UNDEFINED_OR_NULL", score |-> RISK_WEIGHTS.PLACEHOLDER_DETECTED],
     [message |-> "SUSPICIOUS_PLACEHOLDER", score |-> RISK_WEIGHTS.PLACEHOLDER_DETECTED],
     [message |-> "SUSPICIOUS_CREDENTIAL_TYPE", score |-> RISK_WEIGHTS.WRONG_CREDENTIAL_TYPE],
     [message |-> "SUSPICIOUS_MULTIPLE_SPACES", score |-> RISK_WEIGHTS.MULTIPLE_SPACES],
     [message |-> "SUSPICIOUS_EDGE_WHITESPACE", score |-> RISK_WEIGHTS.HAS_WHITESPACE] >>

\* The keywords (of those the code searches for) that each message contains:
\*   TOO_SHORT                    "Input too short (a < b)"
\*   TOO_LONG                     "Input too long (a > b)"
\*   HAS_WHITESPACE               "Contains whitespace (tokens typically do not)"
\*   MISSING_PREFIX               "Missing expected prefix pattern"
\*   PATTERN_MISMATCH             "Does not match expected pattern"
\*   CUSTOM_CHECK_FAILED          "Failed custom validation"
\*   SUSPICIOUS_UNDEFINED_OR_NULL "Looks like an undefined or null value"
\*   SUSPICIOUS_PLACEHOLDER       "Looks like a placeholder or test value"
\*   SUSPICIOUS_CREDENTIAL_TYPE   "Might be a different credential type (not a token)"
\*   SUSPICIOUS_MULTIPLE_SPACES   "Contains multiple consecutive spaces"
\*   SUSPICIOUS_EDGE_WHITESPACE   "Has leading or trailing whitespace"
\*   VERY_SHORT                   "Input is very short (a chars) - might not be a real token"
\*   VERY_LONG                    "Input is very long (a chars) - might be malformed"
\*   LOW_ENTROPY                  "Low character diversity (might not be a token)"
MessageKeywords(tag) ==
  CASE tag = "TOO_SHORT" -> {"too short"}
    [] tag = "TOO_LONG" -> {"too long"}
    [] tag = "HAS_WHITESPACE" -> {"whitespace"}
    [] tag = "MISSING_PREFIX" -> {"prefix", "pattern"}
    [] tag = "PATTERN_MISMATCH" -> {"pattern"}
    [] tag = "CUSTOM_CHECK_FAILED" -> {"custom"}
    [] tag = "SUSPICIOUS_UNDEFINED_OR_NULL" -> {"undefined", "null"}
    [] tag = "SUSPICIOUS_PLACEHOLDER" -> {"placeholder"}
    [] tag = "SUSPICIOUS_CREDENTIAL_TYPE" -> {"credential"}
    [] tag = "SUSPICIOUS_EDGE_WHITESPACE" -> {"whitespace"}
    [] tag = "LOW_ENTROPY" -> {"diversity"}
    [] OTHER -> {}

MessageIncludes(w, keyword) == keyword \in MessageKeywords(w.tag)

\* The else-if chain of generateSuggestions for one warning; "" is no suggestion.
SuggestionFor(w) ==
  IF MessageIncludes(w, "too short") THEN "Ensure you are passing the full token string"
  ELSE IF MessageIncludes(w, "too long")
    THEN "Verify the input is a single token, not multiple concatenated values"
  ELSE IF MessageIncludes(w, "whitespace") THEN "Trim whitespace from token before masking"
  ELSE IF MessageIncludes(w, "prefix") THEN "Check if the token format is correct"
  ELSE IF MessageIncludes(w, "pattern") THEN "Verify the token follows the expected format"
  ELSE IF MessageIncludes(w, "custom") THEN "Review custom validation logic"
  ELSE IF \/ MessageIncludes(w, "placeholder")
          \/ MessageIncludes(w, "undefined")
          \/ MessageIncludes(w, "null")
    THEN "Replace placeholder with actual token value"
  ELSE IF \/ MessageIncludes(w, "password")
          \/ MessageIncludes(w, "username")
          \/ MessageIncludes(w, "credential")
    THEN "Ensure you are passing a token, not a password or username"
  ELSE IF MessageIncludes(w, "entropy") \/ MessageIncludes(w, "diversity")
    THEN "Verify this is a real token and not a test string"
  ELSE ""

RECURSIVE generateSuggestionsFrom(_, _)
generateSuggestionsFrom(warnings, suggestions) ==
  IF warnings = <<>> THEN suggestions
  ELSE LET suggestion == SuggestionFor(Head(warnings))
       IN generateSuggestionsFrom(
            Tail(warnings),
            IF suggestion # "" /\ suggestion \notin Range(suggestions)
              THEN Append(suggestions, suggestion)
              ELSE suggestions)

generateSuggestions(warnings) == generateSuggestionsFrom(warnings, <<>>)

\* rules.pattern.test(input), for the patterns the model's callers pass.
RulePatternTest(pattern, input) ==
  CASE pattern = "^[A-Za-z0-9_-]+$" ->
         Len(input) >= 1 /\ \A i \in DOMAIN input : input[i] \in AlphaNum \cup {"_", "-"}
    [] OTHER -> FALSE

\* rules.customCheck(input), for the predicates the model's callers pass.
CustomCheck(check, input) ==
  CASE check = "!input.includes('test')" -> ~Includes(input, <<"t","e","s","t">>)
    [] OTHER -> FALSE

Has(rec, field) == field \in DOMAIN rec

If(cond, w) == IF cond THEN << w >> ELSE <<>>

\* A variant of SumScores that keeps only the score of the last warning, as
\* `riskScore = score` in place of `riskScore += score` would.
SumScoresLast(ws) == IF ws = <<>> THEN 0 ELSE ws[Len(ws)].score

RECURSIVE SumScores(_)
SumScores(ws) == IF ws = <<>> THEN 0 ELSE Head(ws).score + SumScores(Tail(ws))

\* The n-th and later entries of SUSPICIOUS_PATTERNS that match the input.
RECURSIVE SuspiciousFrom(_, _)
SuspiciousFrom(n, input) ==
  IF n > Len(SUSPICIOUS_PATTERNS) THEN <<>>
  ELSE If(SuspiciousTest(n, input),
          Warning(SUSPICIOUS_PATTERNS[n].message, 0, 0, SUSPICIOUS_PATTERNS[n].score))
       \o SuspiciousFrom(n + 1, input)

calculateEntropyBelow(input) == BelowEntropyRatio(input)

validateInput(input, rules) ==
  IF input = <<>>
    THEN [valid |-> FALSE,
          warnings |-> << Warning("EMPTY", 0, 0, 100) >>,
          suggestions |-> << "Provide a valid string input" >>,
          riskScore |-> 100]
  ELSE
    LET ruleBased ==
             If(Has(rules, "minLength") /\ Len(input) < rules.minLength,
                Warning("TOO_SHORT", Len(input), rules.minLength, RISK_WEIGHTS.TOO_SHORT))
          \o If(Has(rules, "maxLength") /\ Len(input) > rules.maxLength,
                Warning("TOO_LONG", Len(input), rules.maxLength, RISK_WEIGHTS.TOO_LONG))
          \o If(Has(rules, "noSpaces") /\ rules.noSpaces /\ HasWhitespace(input),
                Warning("HAS_WHITESPACE", 0, 0, RISK_WEIGHTS.HAS_WHITESPACE))
          \o If(Has(rules, "requirePrefix") /\ rules.requirePrefix
                  /\ ReMatchLen("[a-z]{2,6}_", input) < 0,
                Warning("MISSING_PREFIX", 0, 0, RISK_WEIGHTS.MISSING_PREFIX))
          \o If(Has(rules, "pattern") /\ ~RulePatternTest(rules.pattern, input),
                Warning("PATTERN_MISMATCH", 0, 0, RISK_WEIGHTS.PATTERN_MISMATCH))
          \o If(Has(rules, "customCheck") /\ ~CustomCheck(rules.customCheck, input),
                Warning("CUSTOM_CHECK_FAILED", 0, 0, RISK_WEIGHTS.CUSTOM_CHECK_FAILED))
        suspicious == ruleBased \o SuspiciousFrom(1, input)
        short ==
          suspicious
          \o If(/\ Len(input) < MIN_TOKEN_LENGTH
                /\ ~(Has(rules, "minLength") /\ rules.minLength # 0)
                /\ ~(\E i \in DOMAIN suspicious : MessageIncludes(suspicious[i], "too short")),
                Warning("VERY_SHORT", Len(input), 0, 25))
        long ==
          short
          \o If(/\ Len(input) > MAX_TOKEN_LENGTH
                /\ ~(Has(rules, "maxLength") /\ rules.maxLength # 0)
                /\ ~(\E i \in DOMAIN short : MessageIncludes(short[i], "too long")),
                Warning("VERY_LONG", Len(input), 0, 15))
        warnings ==
          long
          \o If(calculateEntropyBelow(input),
                Warning("LOW_ENTROPY", 0, 0, RISK_WEIGHTS.LOW_ENTROPY))
    IN [valid |-> Len(warnings) = 0,
        warnings |-> warnings,
        suggestions |-> generateSuggestions(warnings),
        riskScore |-> Min(100, SumScores(warnings))]

(***************************************************************************)
(* Options                                                                 *)
(*                                                                         *)
(* A MaskOptions object is a function from the names of the fields that    *)
(* have a value to their values.  The fields the caller wrote with the     *)
(* value undefined are the set under the name "undefined": for ?. and ??   *)
(* they are as good as absent, but an object spread copies them.           *)
(* fixedLength is number | boolean and preservePrefix is                   *)
(* boolean | string[]: both carry their JavaScript type in `kind`.         *)
(***************************************************************************)
Num(n) == [kind |-> "num", b |-> FALSE, n |-> n]

Bool(b) == [kind |-> "bool", b |-> b, n |-> 0]

PrefixBool(b) == [kind |-> "bool", b |-> b, list |-> {}]

PrefixList(l) == [kind |-> "list", b |-> FALSE, list |-> l]

\* The fields an object has with the value undefined.
Undef(o) == IF "undefined" \in DOMAIN o THEN o["undefined"] ELSE {}

\* { ...a, ...b }: b's fields over a's, b's undefined ones included.
Spread(a, b) ==
  LET undefined == (Undef(a) \ DOMAIN b) \cup Undef(b)
      defined == (DOMAIN a \cup DOMAIN b) \ (Undef(b) \cup {"undefined"})
  IN [f \in defined |-> IF f \in DOMAIN b THEN b[f] ELSE a[f]]
     @@ (IF undefined = {} THEN <<>> ELSE "undefined" :> undefined)

\* a ?? b on field f of an options object
Coalesce(o, f, default) == IF Has(o, f) THEN o[f] ELSE default

DEFAULT_MASK_CHAR == << Bullet >>

DEFAULT_FIXED_LENGTH == 8

DEFAULT_SHOW_TAIL == 4

DEFAULT_SHOW_HEAD == 0

DEFAULT_OPTIONS ==
  [fixedLength |-> Num(DEFAULT_FIXED_LENGTH),
   showTail |-> DEFAULT_SHOW_TAIL,
   showHead |-> DEFAULT_SHOW_HEAD,
   maskChar |-> DEFAULT_MASK_CHAR,
   preservePrefix |-> PrefixBool(TRUE),
   warnIfPlain |-> FALSE,
   mode |-> "auto",
   includeMetadata |-> FALSE]

DEFAULT_JWT_DELIMITER == << "." >>

DEFAULT_SEGMENT_CHARS == 3

JWT_SEGMENT_COUNT == 3

(***************************************************************************)
(* presets/defaults                                                        *)
(***************************************************************************)
PRESET_STRICT ==
  [name |-> "strict",
   description |-> "Maximum security - minimal exposure (PCI-DSS/SOC2 compliant)",
   fixedLength |-> Num(12), showTail |-> 4, showHead |-> 0, maskChar |-> << Bullet >>,
   preservePrefix |-> PrefixBool(TRUE), warnIfPlain |-> TRUE,
   validators |-> [minLength |-> 16, noSpaces |-> TRUE],
   mode |-> "auto"]

PRESET_BALANCED ==
  [name |-> "balanced",
   description |-> "Balance security and usability - good for general use",
   fixedLength |-> Num(8), showTail |-> 4, showHead |-> 2, maskChar |-> << Bullet >>,
   preservePrefix |-> PrefixBool(TRUE), warnIfPlain |-> TRUE,
   validators |-> [minLength |-> 12, noSpaces |-> TRUE],
   mode |-> "auto"]

\* validators: undefined
PRESET_LENIENT ==
  [name |-> "lenient",
   description |-> "More visible for debugging - use in development only",
   fixedLength |-> Num(6), showTail |-> 6, showHead |-> 4, maskChar |-> << "*" >>,
   preservePrefix |-> PrefixBool(TRUE), warnIfPlain |-> FALSE,
   mode |-> "auto"]

\* validators: undefined
PRESET_UI ==
  [name |-> "ui",
   description |-> "Optimized for UI display - clean and readable",
   fixedLength |-> Num(8), showTail |-> 4, showHead |-> 4, maskChar |-> << Bullet >>,
   preservePrefix |-> PrefixBool(TRUE), warnIfPlain |-> FALSE,
   mode |-> "auto"]

PRESETS ==
  [strict |-> PRESET_STRICT, balanced |-> PRESET_BALANCED,
   lenient |-> PRESET_LENIENT, ui |-> PRESET_UI]

\* The property names every object inherits from Object.prototype: PRESETS[name]
\* finds them, and what it finds is an object or a function with no own
\* enumerable property.
ObjectPrototypeNames ==
  {"constructor", "toString", "toLocaleString", "valueOf", "hasOwnProperty",
   "isPrototypeOf", "propertyIsEnumerable", "__proto__"}

\* getPreset(name) = PRESETS[name]: whether the value is truthy, and its own
\* enumerable properties.
getPreset(name) ==
  IF name \in DOMAIN PRESETS THEN [truthy |-> TRUE, config |-> PRESETS[name]]
  ELSE IF name \in ObjectPrototypeNames THEN [truthy |-> TRUE, config |-> <<>>]
  ELSE [truthy |-> FALSE, config |-> <<>>]

OptionalFields == {"validators", "segments", "onWarning", "preset"}

\* mergeWithDefaults: every required field has a value; an optional field
\* whose value is undefined is absent.
mergeWithDefaults(options) ==
  [f \in DOMAIN DEFAULT_OPTIONS |-> Coalesce(options, f, DEFAULT_OPTIONS[f])]
  @@ ("customPrefixes" :> Coalesce(options, "customPrefixes", <<>>))
  @@ [f \in OptionalFields \cap DOMAIN options |-> options[f]]

\* A variant of resolveOptions in which the caller's validators object
\* replaces the preset's as a whole.
resolveOptionsWholeValidators(options) ==
  IF Has(options, "preset") /\ options.preset # ""
    THEN LET presetConfig == getPreset(options.preset)
         IN IF ~presetConfig.truthy
              THEN [threw |-> TRUE, opts |-> <<>>]
              ELSE [threw |-> FALSE,
                    opts |-> mergeWithDefaults(Spread(presetConfig.config, options))]
    ELSE [threw |-> FALSE, opts |-> mergeWithDefaults(options)]

\* Step 1 of mask: the resolved options, or the "Unknown preset" error.
\* `if (options.preset)` is false for an absent preset and for "".
resolveOptions(options) ==
  IF Has(options, "preset") /\ options.preset # ""
    THEN LET presetConfig == getPreset(options.preset)
         IN IF ~presetConfig.truthy
              THEN [threw |-> TRUE, opts |-> <<>>]
              ELSE LET merged == Spread(presetConfig.config, options)
                       validators ==
                         IF Has(options, "validators")
                           THEN "validators" :>
                                  Spread(Coalesce(presetConfig.config, "validators", <<>>),
                                         options.validators)
                           ELSE [f \in {"validators"} \cap DOMAIN presetConfig.config |->
                                   presetConfig.config.validators]
                   IN [threw |-> FALSE,
                       opts |-> mergeWithDefaults(
                                  validators
                                  @@ [f \in DOMAIN merged \ {"validators"} |-> merged[f]])]
    ELSE [threw |-> FALSE, opts |-> mergeWithDefaults(options)]

(***************************************************************************)
(* core/masker: maskStandard                                               *)
(***************************************************************************)
minMaskChars == 1

\* Step 1: {prefix, secret}.  A null prefix and "" are both falsy.
extractPrefix(input, metadata, opts) ==
  IF /\ (opts.preservePrefix.kind = "list" \/ opts.preservePrefix.b)
     /\ ~metadata.prefixNull /\ metadata.prefix # <<>>
     /\ \/ (opts.preservePrefix.kind = "bool" /\ opts.preservePrefix.b)
        \/ (opts.preservePrefix.kind = "list" /\ metadata.prefix \in opts.preservePrefix.list)
    THEN [prefix |-> metadata.prefix, secret |-> SliceFrom(input, Len(metadata.prefix))]
    ELSE [prefix |-> <<>>, secret |-> input]

\* typeof opts.fixedLength === "number" ? opts.fixedLength : 8
fixedMaskLength(fixedLength) == IF fixedLength.kind = "num" THEN fixedLength.n ELSE 8

\* Variants of visibleChars and maskLength that differ from the source in one
\* decision each; the properties below tell them apart from the source's.
\* No overlap check: head and tail are only capped at the secret's length.
visibleCharsNoReserve(showHead, showTail, len) ==
  [maskAll |-> FALSE, adjusted |-> FALSE,
   headChars |-> Min(showHead, len), tailChars |-> Min(showTail, len)]

\* No early return for a one-character secret: the overlap adjustment goes on
\* to the mask of step 4 with nothing visible.
visibleCharsNoMaskAll(showHead, showTail, len) ==
  LET headChars == Min(showHead, len)
      tailChars == Min(showTail, len)
  IN IF headChars + tailChars >= len
       THEN LET maxVisibleChars == Max(0, len - minMaskChars)
                adjustedTail == Min(tailChars, maxVisibleChars \div 2)
                adjustedHead == Min(headChars, maxVisibleChars - adjustedTail)
            IN [maskAll |-> FALSE, adjusted |-> TRUE,
                headChars |-> adjustedHead, tailChars |-> adjustedTail]
       ELSE [maskAll |-> FALSE, adjusted |-> FALSE,
             headChars |-> headChars, tailChars |-> tailChars]

\* The mask always follows the hidden part's length, whatever fixedLength is.
maskLengthVariable(fixedLength, len, headChars, tailChars) ==
  Max(minMaskChars, len - headChars - tailChars)

\* Variable-length masking one short, without the minMaskChars floor.
maskLengthOffByOne(fixedLength, len, headChars, tailChars) ==
  IF fixedLength.kind = "bool" /\ ~fixedLength.b
    THEN len - headChars - tailChars - 1
    ELSE fixedMaskLength(fixedLength)

\* Variable-length masking that counts the head but not the tail as shown.
maskLengthIgnoreTail(fixedLength, len, headChars, tailChars) ==
  IF fixedLength.kind = "bool" /\ ~fixedLength.b
    THEN Max(minMaskChars, len - headChars)
    ELSE fixedMaskLength(fixedLength)

\* Step 2, for a secret of length len >= 1: whether everything is masked, and
\* otherwise the head and tail counts after the overlap adjustment.
visibleChars(showHead, showTail, len) ==
  LET headChars == Min(showHead, len)
      tailChars == Min(showTail, len)
  IN IF headChars + tailChars >= len
       THEN LET maxVisibleChars == Max(0, len - minMaskChars)
            IN IF maxVisibleChars = 0
                 THEN [maskAll |-> TRUE, adjusted |-> FALSE, headChars |-> 0, tailChars |-> 0]
                 ELSE LET adjustedTail == Min(tailChars, maxVisibleChars \div 2)
                          adjustedHead == Min(headChars, maxVisibleChars - adjustedTail)
                      IN [maskAll |-> FALSE, adjusted |-> TRUE,
                          headChars |-> adjustedHead, tailChars |-> adjustedTail]
       ELSE [maskAll |-> FALSE, adjusted |-> FALSE,
             headChars |-> headChars, tailChars |-> tailChars]

\* Step 4: the number of repetitions of maskChar.
maskLength(fixedLength, len, headChars, tailChars) ==
  IF fixedLength.kind = "bool" /\ ~fixedLength.b
    THEN Max(minMaskChars, len - headChars - tailChars)
    ELSE fixedMaskLength(fixedLength)

\* maskStandard with its intermediate values: which return statement was taken
\* (path), the parts of the output, and the console.warn lines.
standardTrace(input, metadata, opts) ==
  LET split == extractPrefix(input, metadata, opts)
      prefix == split.prefix
      secret == split.secret
      none == [path |-> "prefix", prefix |-> prefix, secret |-> secret,
               headChars |-> 0, tailChars |-> 0, head |-> <<>>, tail |-> <<>>,
               mask |-> <<>>, maskCount |-> 0, out |-> prefix, warned |-> <<>>]
  IN IF Len(secret) = 0 THEN none
     ELSE LET v == visibleChars(opts.showHead, opts.showTail, Len(secret))
          IN IF v.maskAll
               THEN LET n == fixedMaskLength(opts.fixedLength)
                    IN [none EXCEPT !.path = "maskAll",
                                    !.mask = Repeat(opts.maskChar, n),
                                    !.maskCount = n,
                                    !.out = prefix \o Repeat(opts.maskChar, n)]
               ELSE LET head == SliceTo(secret, v.headChars)
                        tail == IF v.tailChars > 0 THEN SliceLast(secret, v.tailChars) ELSE <<>>
                        n == maskLength(opts.fixedLength, Len(secret), v.headChars, v.tailChars)
                        mask == Repeat(opts.maskChar, n)
                    IN [path |-> "composed", prefix |-> prefix, secret |-> secret,
                        headChars |-> v.headChars, tailChars |-> v.tailChars,
                        head |-> head, tail |-> tail, mask |-> mask, maskCount |-> n,
                        out |-> prefix \o head \o mask \o tail,
                        warned |-> IF v.adjusted /\ opts.warnIfPlain
                                     THEN << "SECURITY: Adjusted showHead and showTail" >>
                                     ELSE <<>>]

maskStandard(input, metadata, opts) == standardTrace(input, metadata, opts).out

(***************************************************************************)
(* core/masker: maskJWT, maskCustomSegments                                *)
(***************************************************************************)
\* opts.segments?.field ?? default
SegmentOption(opts, field, default) ==
  IF Has(opts, "segments") /\ Has(opts.segments, field) THEN opts.segments[field] ELSE default

\* part.slice(-n): slice(-0) is slice(0), the whole string.
SliceNeg(s, n) == IF n = 0 THEN s ELSE SliceLast(s, n)

\* A variant of jwtSegment that shows a tail as well, as the custom mode does.
jwtSegmentWithTail(part, charsPerSegment, maskChar) ==
  IF Len(part) <= charsPerSegment
    THEN part
    ELSE SliceTo(part, charsPerSegment) \o Repeat(maskChar, 3) \o SliceNeg(part, charsPerSegment)

jwtSegment(part, charsPerSegment, maskChar) ==
  IF Len(part) <= charsPerSegment
    THEN part
    ELSE SliceTo(part, charsPerSegment) \o Repeat(maskChar, 3)

\* maskJWT: the masked string and the console.warn lines.  The fallback calls
\* detectPrefix(input) with no per-call prefixes.
jwtTrace(input, opts, reg) ==
  LET delimiter == SegmentOption(opts, "delimiter", DEFAULT_JWT_DELIMITER)
      parts == Split(input, delimiter)
  IN IF Len(parts) # JWT_SEGMENT_COUNT
       THEN LET t == standardTrace(input, detectPrefix(input, <<>>, reg), opts)
            IN [fallback |-> TRUE, out |-> t.out,
                warned |-> << "JWT mode expects 3 segments" >> \o t.warned]
       ELSE LET charsPerSegment ==
                  SegmentOption(opts, "showCharsPerSegment", DEFAULT_SEGMENT_CHARS)
                maskedParts ==
                  [i \in DOMAIN parts |-> jwtSegment(parts[i], charsPerSegment, opts.maskChar)]
            IN [fallback |-> FALSE, out |-> Join(maskedParts, delimiter), warned |-> <<>>]

maskJWT(input, opts, reg) == jwtTrace(input, opts, reg).out

customSegment(part, charsPerSegment, maskChar) ==
  IF Len(part) <= charsPerSegment * 2
    THEN part
    ELSE SliceTo(part, charsPerSegment)
         \o Repeat(maskChar, 4)
         \o SliceNeg(part, charsPerSegment)

maskCustomSegments(input, opts) ==
  LET delimiter == SegmentOption(opts, "delimiter", << "-" >>)
      parts == Split(input, delimiter)
      charsPerSegment == SegmentOption(opts, "showCharsPerSegment", 2)
      maskedParts ==
        [i \in DOMAIN parts |-> customSegment(parts[i], charsPerSegment, opts.maskChar)]
  IN Join(maskedParts, delimiter)

(***************************************************************************)
(* core/masker: mask                                                       *)
(***************************************************************************)
NoValidation == [valid |-> TRUE, warnings |-> <<>>, suggestions |-> <<>>, riskScore |-> 0]

\* Step 2: the ValidationResult and what the call reports: a call of the
\* onWarning callback, or console.warn lines.
validationStep(input, opts) ==
  LET validation ==
        IF opts.warnIfPlain
          THEN validateInput(input, Coalesce(opts, "validators", <<>>))
          ELSE NoValidation
  IN [validation |-> validation,
      warned |->
        IF opts.warnIfPlain /\ ~validation.valid
          THEN IF Has(opts, "onWarning")
                 THEN << "onWarning(validation)" >>
                 ELSE << "warnings" >>
                      \o (IF Len(validation.suggestions) > 0 THEN << "Suggestions" >> ELSE <<>>)
          ELSE <<>>]

\* Step 4: the strategy taken, its masked string, its console.warn lines and,
\* for the Standard strategy, its intermediate values.
jwtDispatch(t) ==
  [strategy |-> IF t.fallback THEN "jwt-fallback" ELSE "jwt",
   masked |-> t.out, warned |-> t.warned, trace |-> <<>>]

standardDispatch(t) ==
  [strategy |-> "standard", masked |-> t.out, warned |-> t.warned, trace |-> t]

dispatch(input, metadata, opts, reg) ==
  IF opts.mode = "jwt"
    THEN jwtDispatch(jwtTrace(input, opts, reg))
  ELSE IF opts.mode = "custom"
    THEN [strategy |-> "custom", masked |-> maskCustomSegments(input, opts),
          warned |-> <<>>, trace |-> <<>>]
  ELSE standardDispatch(standardTrace(input, metadata, opts))

\* A variant of maskReturn that hands back nothing when validation failed.
maskReturnBlocked(input, opts, step, metadata, d) ==
  [threw |-> FALSE,
   opts |-> opts,
   strategy |-> d.strategy,
   trace |-> d.trace,
   masked |-> IF step.validation.valid THEN d.masked ELSE <<>>,
   metadata |-> metadata,
   validation |-> step.validation,
   original |-> [length |-> Len(input), hasPrefix |-> ~metadata.prefixNull],
   shape |-> IF opts.includeMetadata THEN "MaskResult" ELSE "string",
   warned |-> step.warned \o d.warned]

\* Steps 2 to 5 with the resolved options: what the call computed and returned.
\* `shape` is what the caller gets: the masked string, or the MaskResult when
\* includeMetadata is set.
maskReturn(input, opts, step, metadata, d) ==
  [threw |-> FALSE,
   opts |-> opts,
   strategy |-> d.strategy,
   trace |-> d.trace,
   masked |-> d.masked,
   metadata |-> metadata,
   validation |-> step.validation,
   original |-> [length |-> Len(input), hasPrefix |-> ~metadata.prefixNull],
   shape |-> IF opts.includeMetadata THEN "MaskResult" ELSE "string",
   warned |-> step.warned \o d.warned]

maskDetected(input, opts, metadata, reg) ==
  maskReturn(input, opts, validationStep(input, opts), metadata,
             dispatch(input, metadata, opts, reg))

maskResolved(input, opts, reg) ==
  maskDetected(input, opts, detectPrefix(input, opts.customPrefixes, reg), reg)

\* mask(input, options) against the registry reg.
mask(input, options, reg) ==
  LET resolved == resolveOptions(options)
  IN IF resolved.threw
       THEN [threw |-> TRUE, error |-> "Unknown preset", warned |-> <<>>]
       ELSE maskResolved(input, resolved.opts, reg)

(***************************************************************************)
(* The program as a state machine                                          *)
(*                                                                         *)
(* registry is customPrefixRegistry, a Map in insertion order.  call and   *)
(* result are the last call of the public surface and what it returned or  *)
(* threw; diag is what that call wrote with console.warn or handed to      *)
(* onWarning.  The library is synchronous: a call starts when no call is   *)
(* in progress (Idle) and Return ends it.                                  *)
(***************************************************************************)
Idle == call.op = "none"

Init ==
  /\ registry = <<>>
  /\ call = [op |-> "none"]
  /\ result = [threw |-> FALSE]
  /\ diag = <<>>

RegisterPrefix(prefix, description) ==
  LET r == registerPrefix(registry, prefix, description)
  IN /\ Idle
     /\ registry' = r.registry
     /\ call' = [op |-> "registerPrefix", prefix |-> prefix, description |-> description]
     /\ result' = [threw |-> r.threw]
     /\ diag' = <<>>

ClearCustomPrefixes ==
  /\ Idle
  /\ registry' = <<>>
  /\ call' = [op |-> "clearCustomPrefixes"]
  /\ result' = [threw |-> FALSE]
  /\ diag' = <<>>

\* A variant of Detect that keeps the per-call prefixes in the registry.
DetectRemembering(input, customPrefixes) ==
  /\ Idle
  /\ call' = [op |-> "detect", input |-> input, customPrefixes |-> customPrefixes]
  /\ result' = [threw |-> FALSE, metadata |-> detectPrefix(input, customPrefixes, registry)]
  /\ diag' = <<>>
  /\ registry' = registry \o customPrefixes

Detect(input, customPrefixes) ==
  /\ Idle
  /\ call' = [op |-> "detect", input |-> input, customPrefixes |-> customPrefixes]
  /\ result' = [threw |-> FALSE, metadata |-> detectPrefix(input, customPrefixes, registry)]
  /\ diag' = <<>>
  /\ UNCHANGED registry

\* A variant of Mask that registers the per-call prefixes for later calls.
MaskRemembering(input, options) ==
  LET r == mask(input, options, registry)
  IN /\ Idle
     /\ call' = [op |-> "mask", input |-> input, options |-> options]
     /\ result' = r
     /\ diag' = r.warned
     /\ registry' = registry \o (IF r.threw THEN <<>> ELSE r.opts.customPrefixes)

Mask(input, options) ==
  LET r == mask(input, options, registry)
  IN /\ Idle
     /\ call' = [op |-> "mask", input |-> input, options |-> options]
     /\ result' = r
     /\ diag' = r.warned
     /\ UNCHANGED registry

\* validateInput, exported as validateToken.
Validate(input, rules) ==
  /\ Idle
  /\ call' = [op |-> "validate", input |-> input, rules |-> rules]
  /\ result' = [threw |-> FALSE, validation |-> validateInput(input, rules)]
  /\ diag' = <<>>
  /\ UNCHANGED registry

Return ==
  /\ ~Idle
  /\ call' = [op |-> "none"]
  /\ result' = [threw |-> FALSE]
  /\ diag' = <<>>
  /\ UNCHANGED registry

(***************************************************************************)
(* Bounded inputs                                                          *)
(***************************************************************************)
MaxSecretLen == 3

MaxShow == 4

MaxFixed == 2

MaxRegistry == 2

\* Every string over the alphabet of length at most n.
Strings(alphabet, n) == UNION { [1..k -> alphabet] : k \in 0..n }

NPM == <<"n","p","m","_">>

\* A complete Twilio API key: SK followed by 32 hexadecimal digits.
TwilioKey == <<"S","K">> \o Repeat(<<"0","f">>, 16)

\* Secrets of the Standard strategy: every short string over a letter and the
\* mask character "*", and two longer ones with distinct characters.
Secrets ==
  Strings({"a", "*"}, MaxSecretLen)
  \cup { <<"a","b","c","1","2","3">>, Repeat(<< Bullet >>, 8) \o <<"i","9","j","0">> }

StandardInputs == Secrets \cup { NPM \o s : s \in Secrets }

FixedLengths == { Bool(FALSE), Bool(TRUE) } \cup { Num(n) : n \in 0..MaxFixed }

MaskChars == { << "*" >>, << "-", "-" >>, <<>> }

\* Every way to give or leave out the field f, with a value of vs when given.
Optional(f, vs) == { <<>> } \cup { f :> v : v \in vs }

StandardOptions ==
  { ("showHead" :> h) @@ ("showTail" :> t) @@ fl @@ mc @@ pp :
      h \in 0..MaxShow, t \in 0..MaxShow,
      fl \in Optional("fixedLength", FixedLengths),
      mc \in Optional("maskChar", MaskChars),
      pp \in Optional("preservePrefix", { PrefixBool(FALSE) }) }
  \cup { ("mode" :> m) @@ ("preservePrefix" :> pp) :
           m \in {"auto", "standard", "apikey"},
           pp \in { PrefixBool(TRUE), PrefixList({ NPM }), PrefixList({}) } }

\* Inputs of the public surface: empty, short, segmented, with a known
\* prefix, a complete token of a known format, and placeholders.
Tokens ==
  { <<>>, <<"x">>, <<"a","b","c">>, <<"a",".","b",".","c">>, <<"a","b","c","d",".","e","f","g","h",".","i","j">>, <<"a","b","-","c","d","e","f","g">>,
    NPM, <<"n","p","m","_","x">>, <<"n","p","m","_","a","b","c","1","2","3">>, <<"m","y","_","s","e","c","r","e","t","1">>, <<"s","k","-","a","n","t","-","a","b","c">>,
    TwilioKey, <<"u","n","d","e","f","i","n","e","d">>, <<"a"," "," ","b">>, <<"t","o","k","e","n","1","2","3">> }

RegisteredPrefixes == { NPM, <<"m","y">>, <<"m","y","_">> }

Labels == { "Label A", "Label B" }

\* Per-call customPrefixes objects, as Object.entries lists them.
CustomPrefixMaps ==
  { <<>>,
    << [prefix |-> NPM, name |-> "Per-call NPM"] >>,
    << [prefix |-> <<"m","y","_">>, name |-> "Per-call My"] >>,
    << [prefix |-> <<>>, name |-> "Per-call Any"] >>,
    << [prefix |-> <<"m","y">>, name |-> "Per-call M"], [prefix |-> <<"m","y","_">>, name |-> "Per-call My"] >> }

PresetNames == DOMAIN PRESETS \cup { "nope", "", "constructor" }

SegmentConfigs ==
  { [delimiter |-> << "." >>], [delimiter |-> << "-" >>, showCharsPerSegment |-> 1],
    [showCharsPerSegment |-> 0], [delimiter |-> <<>>] }

\* Options of the full machine: every mode, with and without segments, head
\* and tail, per-call prefixes and metadata.
CoreOptions ==
  { m @@ sg @@ hd : m \in Optional("mode", {"auto", "standard", "apikey", "jwt", "custom"}),
                    sg \in Optional("segments", SegmentConfigs),
                    hd \in { <<>>, ("showHead" :> 1) @@ ("showTail" :> 1) @@ ("fixedLength" :> Bool(FALSE)) @@ ("maskChar" :> << "." >>) } }
  \cup { m @@ ("customPrefixes" :> cp) @@ md :
           m \in Optional("mode", {"jwt"}),
           cp \in CustomPrefixMaps,
           md \in Optional("includeMetadata", { TRUE }) }
  \cup { "preset" :> p : p \in PresetNames }

ValidatorRules ==
  { [minLength |-> 4], [maxLength |-> 3, noSpaces |-> FALSE],
    [pattern |-> "^[A-Za-z0-9_-]+$", customCheck |-> "!input.includes('test')"],
    [requirePrefix |-> TRUE] }

\* One caller-given field.
Overrides ==
  UNION { { "showTail" :> 2, "showHead" :> 1, "fixedLength" :> Bool(FALSE),
            "maskChar" :> << "*" >>, "preservePrefix" :> PrefixBool(FALSE),
            "warnIfPlain" :> TRUE, "warnIfPlain" :> FALSE, "onWarning" :> TRUE,
            "mode" :> "jwt", "includeMetadata" :> TRUE,
            "segments" :> [showCharsPerSegment |-> 1],
            "customPrefixes" :> << [prefix |-> <<"m","y","_">>, name |-> "Per-call My"] >>,
            "undefined" :> {"showHead"}, "undefined" :> {"warnIfPlain"} },
          { "validators" :> v : v \in ValidatorRules } }

\* Options of preset resolution: a preset name or none, and at most two
\* caller-given fields.
PresetOptions ==
  { o \in { p @@ a @@ b : p \in Optional("preset", PresetNames),
                          a \in Overrides \cup { <<>> },
                          b \in Overrides \cup { <<>> } } :
      Undef(o) \cap DOMAIN o = {} }

(***************************************************************************)
(* Specifications                                                          *)
(***************************************************************************)
RegisterCall ==
  /\ Idle
  /\ \E prefix \in RegisteredPrefixes \cup { <<>> }, description \in Labels \cup { "" } :
       /\ \/ Len(registry) < MaxRegistry
          \/ \E i \in DOMAIN registry : registry[i].prefix = prefix
          \/ registerPrefix(registry, prefix, description).threw
       /\ RegisterPrefix(prefix, description)

DetectCall == Idle /\ \E input \in Tokens, customPrefixes \in CustomPrefixMaps : Detect(input, customPrefixes)

MaskCall == Idle /\ \E input \in Tokens, options \in CoreOptions : Mask(input, options)

Next == RegisterCall \/ ClearCustomPrefixes \/ DetectCall \/ MaskCall \/ Return

Spec == Init /\ [][Next]_vars

\* The Standard strategy over every secret, head, tail, fixedLength and maskChar.
StandardCall == Idle /\ \E input \in StandardInputs, options \in StandardOptions : Mask(input, options)

NextStandard == StandardCall \/ Return

SpecStandard == Init /\ [][NextStandard]_vars

\* Option resolution over every preset name and caller-given fields.
PresetCall == Idle /\ \E input \in Tokens, options \in PresetOptions : Mask(input, options)

NextOptions == PresetCall \/ Return

SpecOptions == Init /\ [][NextOptions]_vars

\* validateInput over placeholders, whitespace, short and repetitive
\* inputs and every combination of rules.
MaxPad == 2

ValidateInputs ==
  Tokens
  \cup { <<"n","u","l","l">>, <<"N","U","L","L">>, <<"U","n","d","e","f","i","n","e","d">>,
         <<" ","t","e","s","t"," "," ","x"," ">>, <<"p","a","s","s","w","o","r","d">>,
         Repeat(<<"a">>, 20), <<"n","p","m","_","a","1","b","2","c","3","d","4","e","5","f","6","g","7","h","8">> }
  \cup Strings({"a", " "}, MaxPad)

RuleSets ==
  { a @@ b @@ c @@ d @@ e @@ f :
      a \in Optional("minLength", {0, 4, 20}),
      b \in Optional("maxLength", {0, 3}),
      c \in Optional("noSpaces", {TRUE, FALSE}),
      d \in Optional("requirePrefix", {TRUE}),
      e \in Optional("pattern", {"^[A-Za-z0-9_-]+$"}),
      f \in Optional("customCheck", {"!input.includes('test')"}) }

ValidateCall == Idle /\ \E input \in ValidateInputs, rules \in RuleSets : Validate(input, rules)

NextValidate == ValidateCall \/ Return

SpecValidate == Init /\ [][NextValidate]_vars

\* detect over inputs at the length tiers of the static table and at the
\* thresholds of the heuristic classifier.
AKIA == <<"A","K","I","A">>

DetectInputs ==
  Tokens
  \cup { AKIA \o Repeat(<<"0","1","2","3">>, 4), AKIA \o Repeat(<<"0","1","2","3">>, 3),
         AKIA \o Repeat(<<"0","1","2","3">>, 2) \o <<"4","5","6">>,
         <<"t","o","k","e","n","_","a","b","c">>,
         <<"A","B","C","D","E","F","G","H","1","2","3","4","5","6","7","8">>,
         <<"A","B","C","D","E","F","G","H","1","2","3","4","5","6","7">>,
         <<"A","B","C","D","E","F","G","H"," ","1","2","3","4","5","6","7","8">>,
         <<"A","B","C","D","E","F","G","H","\t","1","2","3","4","5","6","7","8">>,
         <<"A","B","C","D","E","F","G","H","!","2","3","4","5","6","7","8">>,
         <<"A","/","+","=",".","-","_","H","1","2","3","4","5","6","7","8">>,
         Repeat(<<"A">>, 20),
         <<"A","B","C","D","E","F">> \o Repeat(<<"A">>, 14),
         <<"A","B","C","D","E">> \o Repeat(<<"A">>, 15) }

ClassifyCall ==
  Idle /\ \E input \in DetectInputs, customPrefixes \in CustomPrefixMaps : Detect(input, customPrefixes)

NextDetect == RegisterCall \/ ClearCustomPrefixes \/ ClassifyCall \/ Return

SpecDetect == Init /\ [][NextDetect]_vars

(***************************************************************************)
(* Properties of the Standard strategy (SpecStandard)                      *)
(***************************************************************************)
\* The last call was a mask call that took the Standard strategy.
StandardDone == call.op = "mask" /\ ~result.threw /\ result.strategy = "standard"

\* C2: in the Standard strategy, whenever the secret left after prefix
\* extraction is non-empty, the output prefix + head + mask + tail is never
\* equal to the input, for every showHead, showTail, fixedLength, maskChar and
\* every secret content, the mask character included.
C2_OutputNeverInput ==
  (StandardDone /\ Len(result.trace.secret) > 0) => result.masked # call.input

\* C3: for a secret of length L >= 2 the head and tail counts finally shown
\* satisfy head + tail <= L - 1, the head is the first `head` characters and the
\* tail the last `tail` characters of the secret, at disjoint positions, so the
\* character after the head is in neither.
C3_HeadTailLeaveOneHidden ==
  (StandardDone /\ Len(result.trace.secret) >= 2) =>
    LET t == result.trace
        L == Len(t.secret)
    IN /\ t.path = "composed"
       /\ t.headChars >= 0 /\ t.tailChars >= 0
       /\ t.headChars + t.tailChars <= L - 1
       /\ t.head = SubSeq(t.secret, 1, t.headChars)
       /\ t.tail = SubSeq(t.secret, L - t.tailChars + 1, L)
       /\ t.headChars + 1 < L - t.tailChars + 1
       /\ result.masked = t.prefix \o t.head \o t.mask \o t.tail

C3_Witness ==
  /\ StandardDone
  /\ Len(result.trace.secret) >= 2
  /\ result.opts.showHead + result.opts.showTail >= Len(result.trace.secret)
  /\ result.trace.headChars > 0
  /\ result.trace.tailChars > 0

\* C4 (as stated): a secret of length exactly 1 is fully masked for every
\* showHead and showTail: the output is the preserved prefix followed only by
\* maskChar repeated N times, N the numeric fixedLength if one is given and 8
\* otherwise, also when fixedLength is false.
C4_AsStated ==
  (StandardDone /\ Len(result.trace.secret) = 1) =>
    LET o == result.opts
        N == IF o.fixedLength.kind = "num" THEN o.fixedLength.n ELSE 8
    IN /\ result.masked = result.trace.prefix \o Repeat(o.maskChar, N)
       /\ result.trace.head = <<>>
       /\ result.trace.tail = <<>>

\* C4: a secret of length exactly 1 is fully masked for every showHead and
\* showTail: the output is the preserved prefix followed only by maskChar
\* repeated N times and the secret character is no visible head or tail.  N is
\* the numeric fixedLength if one is given and 8 otherwise, except that with
\* fixedLength false and showHead = showTail = 0 it is 1.
C4_SingleCharFullyMasked ==
  (StandardDone /\ Len(result.trace.secret) = 1) =>
    LET o == result.opts
        N == IF o.fixedLength.kind = "num" THEN o.fixedLength.n
             ELSE IF ~o.fixedLength.b /\ o.showHead = 0 /\ o.showTail = 0 THEN 1
             ELSE 8
    IN /\ result.masked = result.trace.prefix \o Repeat(o.maskChar, N)
       /\ result.trace.head = <<>>
       /\ result.trace.tail = <<>>

C4_Witness ==
  /\ StandardDone
  /\ Len(result.trace.secret) = 1
  /\ result.trace.path = "maskAll"
  /\ result.trace.prefix # <<>>
  /\ result.opts.fixedLength = Bool(FALSE)
  /\ result.opts.showHead > 0

\* C5 (as stated): with fixedLength not false the number of mask characters is
\* the numeric fixedLength, or 8 when fixedLength is true, for every non-empty
\* secret, and the output length is |prefix| + head + tail + that number.
C5_AsStated ==
  (StandardDone /\ Len(result.trace.secret) > 0 /\ result.opts.fixedLength # Bool(FALSE)) =>
    LET o == result.opts
        t == result.trace
        N == IF o.fixedLength.kind = "num" THEN o.fixedLength.n ELSE 8
    IN /\ Len(t.mask) = N
       /\ Len(result.masked) = Len(t.prefix) + t.headChars + t.tailChars + N

\* C5: with fixedLength not false the mask is maskChar repeated N times, N the
\* numeric fixedLength, or 8 when fixedLength is true, for every non-empty
\* secret, and the output length is |prefix| + head + tail + N * |maskChar|:
\* a function of the options and the shown counts, not of the secret's length.
C5_FixedLengthInvariant ==
  (StandardDone /\ Len(result.trace.secret) > 0 /\ result.opts.fixedLength # Bool(FALSE)) =>
    LET o == result.opts
        t == result.trace
        N == IF o.fixedLength.kind = "num" THEN o.fixedLength.n ELSE 8
    IN /\ t.maskCount = N
       /\ t.mask = Repeat(o.maskChar, N)
       /\ Len(result.masked) = Len(t.prefix) + t.headChars + t.tailChars + N * Len(o.maskChar)

C5_Witness ==
  /\ StandardDone
  /\ Len(result.trace.secret) > 4
  /\ result.trace.path = "composed"
  /\ result.opts.fixedLength.kind = "num"
  /\ result.opts.fixedLength.n < Len(result.trace.secret) - result.trace.headChars - result.trace.tailChars
  /\ Len(result.opts.maskChar) = 2

\* C6: for every secret of length >= 1, with a non-empty maskChar and
\* fixedLength false, true or a number >= 1, the output contains at least one
\* mask character, right after the prefix and the head; in variable-length
\* mode too when showHead + showTail meets or exceeds the secret's length.
C6_AtLeastOneMaskChar ==
  (/\ StandardDone
   /\ Len(result.trace.secret) >= 1
   /\ Len(result.opts.maskChar) >= 1
   /\ (result.opts.fixedLength.kind = "bool" \/ result.opts.fixedLength.n >= 1)) =>
    LET t == result.trace
        at == Len(t.prefix) + Len(t.head)
    IN /\ t.maskCount >= 1
       /\ Len(t.mask) >= Len(result.opts.maskChar)
       /\ SubSeq(result.masked, at + 1, at + Len(t.mask)) = Repeat(result.opts.maskChar, t.maskCount)

C6_Witness ==
  /\ StandardDone
  /\ Len(result.trace.secret) >= 2
  /\ result.opts.fixedLength = Bool(FALSE)
  /\ Len(result.opts.maskChar) >= 1
  /\ result.opts.showHead + result.opts.showTail >= Len(result.trace.secret)
  /\ result.trace.maskCount = 1

(***************************************************************************)
(* Properties of option resolution and validation (SpecOptions)            *)
(***************************************************************************)
MaskDone == call.op = "mask"

\* C7: mask called with a preset name that is not one of the registered
\* presets (strict, balanced, lenient, ui), the empty string included, raises
\* the Unknown preset error and returns no masked value.
C7_UnknownPresetThrows ==
  (MaskDone /\ Has(call.options, "preset") /\ call.options.preset \notin DOMAIN PRESETS) =>
    result.threw

\* The value of field f the caller gave, else the preset's, else the default's.
\* A field the caller wrote as undefined hides the preset's value.
Resolved(options, preset, f) ==
  IF Has(options, f) THEN options[f]
  ELSE IF Has(preset, f) /\ f \notin Undef(options) THEN preset[f]
  ELSE DEFAULT_OPTIONS[f]

C9_MaskedIndependentOfValidation ==
  (MaskDone /\ ~result.threw) =>
    LET undefined == Undef(call.options) \ {"warnIfPlain"}
        quiet == ("warnIfPlain" :> FALSE)
                 @@ (IF undefined = {} THEN <<>> ELSE "undefined" :> undefined)
                 @@ [f \in DOMAIN call.options \ {"warnIfPlain", "undefined"} |-> call.options[f]]
        other == mask(call.input, quiet, registry)
    IN /\ ~other.threw
       /\ other.validation.valid
       /\ other.masked = result.masked

\* A call whose validation failed and reported it.
C9_Witness ==
  /\ MaskDone
  /\ ~result.threw
  /\ result.opts.warnIfPlain
  /\ ~result.validation.valid
  /\ result.validation.riskScore > 0
  /\ diag # <<>>
  /\ Len(result.masked) > 0

(***************************************************************************)
(* Properties of the public surface (Spec)                                 *)
(***************************************************************************)
\* C1: for every non-empty input and every accepted option configuration (any
\* mode, showHead, showTail, fixedLength, segments setting and registered
\* preset), the masked string mask returns is never equal to the input.
C1_MaskNeverReturnsInput ==
  (MaskDone /\ ~result.threw /\ Len(call.input) > 0) => result.masked # call.input

\* The metadata the last detect call returned is that of the first level with a
\* match: the first per-call entry the input starts with, else the first
\* registered prefix it starts with, else the first static-table entry that
\* matches, else unknown with a null prefix and confidence 0; the first two
\* levels with confidence 1.0.
DetectResolvesByPriority ==
  LET input == call.input
      customPrefixes == call.customPrefixes
      m == result.metadata
      perCall == { i \in DOMAIN customPrefixes : StartsWith(input, customPrefixes[i].prefix) }
      registered == { i \in DOMAIN registry : StartsWith(input, registry[i].prefix) }
      known == { i \in DOMAIN KNOWN_PREFIXES : matchPrefix(input, KNOWN_PREFIXES[i]).matched }
      First(S) == CHOOSE i \in S : \A j \in S : i <= j
  IN IF perCall # {}
       THEN /\ m.type = customPrefixes[First(perCall)].name
            /\ ~m.prefixNull
            /\ m.prefix = customPrefixes[First(perCall)].prefix
            /\ m.confidence = 100
     ELSE IF registered # {}
       THEN /\ m.type = registry[First(registered)].name
            /\ ~m.prefixNull
            /\ m.prefix = registry[First(registered)].prefix
            /\ m.confidence = 100
     ELSE IF known # {}
       THEN /\ m.type = KNOWN_PREFIXES[First(known)].name
            /\ ~m.prefixNull
            /\ StartsWith(input, m.prefix)
            /\ m.confidence \in {60, 80, 90, 100}
     ELSE /\ m.type = "unknown"
          /\ m.prefixNull
          /\ m.confidence = 0

EntriesOf(reg, p) == { i \in DOMAIN reg : reg[i].prefix = p }

\* C11: registration is last-write-wins.  Every successful registerPrefix(p, d)
\* leaves exactly one entry for p, with label d, and every other entry as it
\* was; and a detect call whose input is matched through a registered prefix
\* returns the label the registry holds for that prefix.  By induction over
\* the calls that label is the one of the most recent successful
\* registerPrefix(p, .).
C11_LastWriteWins ==
  [][/\ (call'.op = "registerPrefix" /\ ~result'.threw) =>
          /\ Cardinality(EntriesOf(registry', call'.prefix)) = 1
          /\ \A i \in EntriesOf(registry', call'.prefix) : registry'[i].name = call'.description
          /\ Len(registry') = Len(registry) + (IF EntriesOf(registry, call'.prefix) = {} THEN 1 ELSE 0)
          /\ \A i \in DOMAIN registry :
               registry[i].prefix # call'.prefix => registry'[i] = registry[i]
     /\ (/\ call'.op = "detect"
         /\ call'.input # <<>>
         /\ FirstEntry(call'.customPrefixes, call'.input) = 0
         /\ FirstEntry(registry, call'.input) # 0) =>
          \E i \in DOMAIN registry :
            /\ EntriesOf(registry, registry[i].prefix) = {i}
            /\ result'.metadata.prefix = registry[i].prefix
            /\ result'.metadata.type = registry[i].name
    ]_vars

\* A prefix registered again, after another one, has kept its place.
C11_Witness ==
  /\ call.op = "registerPrefix"
  /\ ~result.threw
  /\ Len(registry) >= 2
  /\ registry[1].prefix = call.prefix
  /\ registry[1].name = call.description

\* C12: registerPrefix fails whenever the prefix or the label is empty, and a
\* failed call leaves the registry exactly as it was, so that detect answers
\* as before.
C12_FailedRegistrationChangesNothing ==
  [][/\ (call'.op = "registerPrefix" /\ (call'.prefix = <<>> \/ call'.description = "")) =>
          result'.threw
     /\ (call'.op = "registerPrefix" /\ result'.threw) =>
          /\ registry' = registry
          /\ \A input \in Tokens :
               detectPrefix(input, <<>>, registry') = detectPrefix(input, <<>>, registry)
    ]_vars

C12_Witness ==
  /\ call.op = "registerPrefix"
  /\ result.threw
  /\ call.prefix # <<>>
  /\ call.description = ""
  /\ registry # <<>>

\* C13: a detect or mask call never changes the registry, and what detect
\* returns is a function of its arguments and the registry at the time of the
\* call, so two detect calls with the same arguments and no registration or
\* clear between them return the same TokenMetadata.
C13_DetectIsPureRead ==
  [][/\ call'.op \in {"detect", "mask"} => registry' = registry
     /\ call'.op = "detect" =>
          result'.metadata = detectPrefix(call'.input, call'.customPrefixes, registry)
    ]_vars

\* A detect call answered from a non-empty registry.
C13_Witness ==
  /\ call.op = "detect"
  /\ registry # <<>>
  /\ FirstEntry(call.customPrefixes, call.input) = 0
  /\ FirstEntry(registry, call.input) # 0
  /\ result.metadata.type = registry[FirstEntry(registry, call.input)].name

(***************************************************************************)
(* Properties of the static table and of the result record (Spec)          *)
(***************************************************************************)
\* The input of the last call matches no per-call and no registered prefix.
NoCustomMatch(customPrefixes) ==
  /\ FirstEntry(customPrefixes, call.input) = 0
  /\ FirstEntry(registry, call.input) = 0

\* C14: for each literal-pattern definition of the static table, an input that
\* starts with that literal and matches no per-call or registered prefix is
\* classified with that definition's name and that literal as prefix; so an
\* input starting with "sk-ant-" is an "Anthropic API Key" with prefix "sk-ant-".
C14_LiteralPrefixesDetected ==
  (call.op = "detect" /\ NoCustomMatch(call.customPrefixes)) =>
    \A i \in DOMAIN KNOWN_PREFIXES :
      (KNOWN_PREFIXES[i].kind = "lit" /\ StartsWith(call.input, KNOWN_PREFIXES[i].lit)) =>
        /\ result.metadata.type = KNOWN_PREFIXES[i].name
        /\ result.metadata.prefix = KNOWN_PREFIXES[i].lit

\* The last call was mask on an input that the static table classifies with
\* confidence 1.0: a complete token of a known format.
CompleteKnownToken ==
  /\ MaskDone
  /\ ~result.threw
  /\ NoCustomMatch(result.opts.customPrefixes)
  /\ ~result.metadata.prefixNull
  /\ result.metadata.confidence = 100

\* C15: for every input classified through the static table with confidence
\* 1.0, the matched prefix is a proper leading part of the input, so the
\* Standard strategy with default options is left with a non-empty secret and
\* returns a string that differs from the input and contains mask characters.
C15_KnownTokenKeepsSecret ==
  (CompleteKnownToken /\ call.options = <<>>) =>
    /\ Len(result.metadata.prefix) < Len(call.input)
    /\ StartsWith(call.input, result.metadata.prefix)
    /\ Len(result.trace.secret) > 0
    /\ result.masked # call.input
    /\ \E i \in DOMAIN result.masked : result.masked[i] = Bullet

\* C16: the result record returned when includeMetadata is true never contains
\* the raw secret: for a complete token of a known format neither masked nor
\* metadata.prefix equals the input (metadata.type is the table's label), and
\* of the original there is only its length and the hasPrefix flag.
C16_ResultRecordHidesSecret ==
  (CompleteKnownToken /\ result.shape = "MaskResult") =>
    /\ result.masked # call.input
    /\ result.metadata.prefix # call.input
    /\ DOMAIN result.original = {"length", "hasPrefix"}
    /\ result.original.length = Len(call.input)

(***************************************************************************)
(* Properties of the jwt and custom modes (Spec)                           *)
(***************************************************************************)
\* opts.segments?.field of the resolved options of the last call, or default.
SegmentsField(field, default) ==
  IF Has(result.opts, "segments") /\ Has(result.opts.segments, field)
    THEN result.opts.segments[field]
    ELSE default

\* C17: in jwt mode, when the input splits on the delimiter (default ".")
\* into exactly 3 segments, each segment of length <= N (showCharsPerSegment,
\* default 3) is kept verbatim and each longer one becomes its first N
\* characters followed by the mask character repeated exactly 3 times,
\* whatever fixedLength is, with no tail; the segments are rejoined with the
\* same delimiter.
C17_JwtSegments ==
  (MaskDone /\ ~result.threw /\ result.opts.mode = "jwt") =>
    LET delimiter == SegmentsField("delimiter", << "." >>)
        N == SegmentsField("showCharsPerSegment", 3)
        parts == Split(call.input, delimiter)
        Shown(part) ==
          IF Len(part) <= N
            THEN part
            ELSE SubSeq(part, 1, N) \o result.opts.maskChar \o result.opts.maskChar \o result.opts.maskChar
    IN /\ delimiter # <<>> => Join(parts, delimiter) = call.input
       /\ Len(parts) = 3 =>
            /\ result.strategy = "jwt"
            /\ result.masked =
                 Shown(parts[1]) \o delimiter \o Shown(parts[2]) \o delimiter \o Shown(parts[3])

\* Three segments, one longer than N and one not, and a fixedLength other than 3.
C17_Witness ==
  /\ MaskDone
  /\ ~result.threw
  /\ result.strategy = "jwt"
  /\ result.opts.fixedLength # Num(3)
  /\ LET parts == Split(call.input, SegmentsField("delimiter", << "." >>))
         N == SegmentsField("showCharsPerSegment", 3)
     IN /\ Len(parts) = 3
        /\ \E i \in DOMAIN parts : Len(parts[i]) > N
        /\ \E i \in DOMAIN parts : Len(parts[i]) > 0 /\ Len(parts[i]) <= N

\* C18: in custom mode, for every per-segment count N >= 0 (default 2), each
\* segment obtained by splitting on the delimiter (default "-") is kept
\* verbatim when its length is <= 2N, and otherwise becomes exactly its first
\* N characters, then the mask character repeated 4 times, then its last N
\* characters (none when N = 0); the segments are rejoined with the delimiter.
C18_CustomSegments ==
  (MaskDone /\ ~result.threw /\ result.opts.mode = "custom") =>
    LET delimiter == SegmentsField("delimiter", << "-" >>)
        N == SegmentsField("showCharsPerSegment", 2)
        parts == Split(call.input, delimiter)
        Shown(part) ==
          IF Len(part) <= 2 * N
            THEN part
            ELSE SubSeq(part, 1, N)
                 \o result.opts.maskChar \o result.opts.maskChar
                 \o result.opts.maskChar \o result.opts.maskChar
                 \o SubSeq(part, Len(part) - N + 1, Len(part))
    IN /\ result.strategy = "custom"
       /\ result.masked = Join([i \in DOMAIN parts |-> Shown(parts[i])], delimiter)

(***************************************************************************)
(* Properties of validateInput (SpecValidate)                              *)
(***************************************************************************)
\* The checks that the input triggers under the rules, each with its weight.
TriggeredChecks(input, rules) ==
  { c \in { [check |-> "minLength", weight |-> RISK_WEIGHTS.TOO_SHORT,
             on |-> Has(rules, "minLength") /\ Len(input) < rules.minLength],
            [check |-> "maxLength", weight |-> RISK_WEIGHTS.TOO_LONG,
             on |-> Has(rules, "maxLength") /\ Len(input) > rules.maxLength],
            [check |-> "noSpaces", weight |-> RISK_WEIGHTS.HAS_WHITESPACE,
             on |-> Has(rules, "noSpaces") /\ rules.noSpaces /\ HasWhitespace(input)],
            [check |-> "requirePrefix", weight |-> RISK_WEIGHTS.MISSING_PREFIX,
             on |-> Has(rules, "requirePrefix") /\ rules.requirePrefix
                    /\ ReMatchLen("[a-z]{2,6}_", input) < 0],
            [check |-> "pattern", weight |-> RISK_WEIGHTS.PATTERN_MISMATCH,
             on |-> Has(rules, "pattern") /\ ~RulePatternTest(rules.pattern, input)],
            [check |-> "customCheck", weight |-> RISK_WEIGHTS.CUSTOM_CHECK_FAILED,
             on |-> Has(rules, "customCheck") /\ ~CustomCheck(rules.customCheck, input)],
            [check |-> "undefined or null", weight |-> RISK_WEIGHTS.PLACEHOLDER_DETECTED,
             on |-> SuspiciousTest(1, input)],
            [check |-> "placeholder", weight |-> RISK_WEIGHTS.PLACEHOLDER_DETECTED,
             on |-> SuspiciousTest(2, input)],
            [check |-> "credential type", weight |-> RISK_WEIGHTS.WRONG_CREDENTIAL_TYPE,
             on |-> SuspiciousTest(3, input)],
            [check |-> "multiple spaces", weight |-> RISK_WEIGHTS.MULTIPLE_SPACES,
             on |-> SuspiciousTest(4, input)],
            [check |-> "edge whitespace", weight |-> RISK_WEIGHTS.HAS_WHITESPACE,
             on |-> SuspiciousTest(5, input)],
            [check |-> "very short", weight |-> 25,
             on |-> Len(input) < MIN_TOKEN_LENGTH
                    /\ ~(Has(rules, "minLength") /\ rules.minLength # 0)],
            [check |-> "very long", weight |-> 15,
             on |-> Len(input) > MAX_TOKEN_LENGTH
                    /\ ~(Has(rules, "maxLength") /\ rules.maxLength # 0)],
            [check |-> "entropy", weight |-> RISK_WEIGHTS.LOW_ENTROPY,
             on |-> 10 * Cardinality({ input[i] : i \in DOMAIN input }) < 3 * Len(input)] } :
      c.on }

\* The sum of the weights of a set of checks, in no order.
RECURSIVE WeightSum(_)
WeightSum(checks) ==
  IF checks = {} THEN 0
  ELSE LET c == CHOOSE x \in checks : TRUE
       IN c.weight + WeightSum(checks \ {c})

\* C19: for every non-empty input and every rule set, validate returns an
\* integer riskScore in [0, 100] equal to min(100, sum of the weights of all
\* triggered checks), a sum over the set of triggered checks and so the same
\* in every order of evaluation; there is one warning per triggered check and
\* valid means none; the empty input returns invalid with a single warning
\* and riskScore 100.
C19_RiskScoreIsClampedSum ==
  (call.op = "validate") =>
    LET v == result.validation
        triggered == TriggeredChecks(call.input, call.rules)
    IN IF call.input = <<>>
         THEN ~v.valid /\ Len(v.warnings) = 1 /\ v.riskScore = 100
         ELSE /\ v.riskScore \in 0..100
              /\ v.riskScore = Min(100, WeightSum(triggered))
              /\ Len(v.warnings) = Cardinality(triggered)
              /\ v.valid <=> triggered = {}

\* Several checks triggered, with weights that add up to more than 100.
C19_Witness ==
  /\ call.op = "validate"
  /\ call.input # <<>>
  /\ Len(result.validation.warnings) >= 3
  /\ WeightSum(TriggeredChecks(call.input, call.rules)) > 100
  /\ result.validation.riskScore = 100

\* C20: validate called with no rules on an input that is exactly "undefined"
\* or "null" (case-insensitive) returns valid = false with exactly one warning,
\* the undefined/null message, exactly one suggestion (replace the
\* placeholder) and riskScore 50.
C20_UndefinedOrNull ==
  (/\ call.op = "validate"
   /\ call.rules = <<>>
   /\ ToLower(call.input) \in { <<"u","n","d","e","f","i","n","e","d">>, <<"n","u","l","l">> }) =>
    LET v == result.validation
    IN /\ ~v.valid
       /\ Len(v.warnings) = 1
       /\ v.warnings[1].tag = "SUSPICIOUS_UNDEFINED_OR_NULL"
       /\ v.suggestions = << "Replace placeholder with actual token value" >>
       /\ v.riskScore = 50

(***************************************************************************)
(* The overlap redistribution of the Standard strategy (SpecStandard)      *)
(***************************************************************************)
\* C21: when the overlap redistribution is applied (headChars + tailChars >= L
\* with L >= 2), the tail has priority in the split: whenever the requested
\* showTail is at least the requested showHead, the adjusted tail count is at
\* least the adjusted head count.
C21_TailHasPriority ==
  (/\ StandardDone
   /\ Len(result.trace.secret) >= 2
   /\ Min(result.opts.showHead, Len(result.trace.secret))
        + Min(result.opts.showTail, Len(result.trace.secret)) >= Len(result.trace.secret)
   /\ result.opts.showTail >= result.opts.showHead) =>
    result.trace.tailChars >= result.trace.headChars

PerCallPrefixes(c, r) ==
  IF c.op = "detect" THEN c.customPrefixes
  ELSE IF c.op = "mask" /\ ~r.threw THEN r.opts.customPrefixes
  ELSE <<>>

\* C23: per-call customPrefixes apply to that call only: a mask or detect call
\* given customPrefixes leaves the process-wide registry unchanged, so every
\* input is classified without customPrefixes after the call as before it, and
\* a detect or mask call without customPrefixes classifies its input from the
\* registry and the static table alone.
C23_PerCallPrefixesDoNotPersist ==
  [][/\ PerCallPrefixes(call', result') # <<>> =>
          /\ registry' = registry
          /\ \A input \in Tokens :
               detectPrefix(input, <<>>, registry') = detectPrefix(input, <<>>, registry)
     /\ (call'.op \in {"detect", "mask"} /\ ~result'.threw
           /\ PerCallPrefixes(call', result') = <<>>) =>
          result'.metadata = detectPrefix(call'.input, <<>>, registry)
    ]_vars

\* A mask call classified by its per-call prefixes while the registry holds
\* another entry for the same input.
C23_Witness ==
  /\ call.op = "mask"
  /\ ~result.threw
  /\ registry # <<>>
  /\ FirstEntry(result.opts.customPrefixes, call.input) # 0
  /\ FirstEntry(registry, call.input) # 0
  /\ result.metadata.type
       = result.opts.customPrefixes[FirstEntry(result.opts.customPrefixes, call.input)].name
  /\ result.metadata.type # registry[FirstEntry(registry, call.input)].name

(***************************************************************************)
(* The heuristic length checks of validateInput (SpecValidate)             *)
(***************************************************************************)
\* Whether the warnings hold one with the given tag.
Warned(warnings, tag) == \E i \in DOMAIN warnings : warnings[i].tag = tag

\* C24: the generic short-input warning (+25) is added for every non-empty
\* input shorter than 16 characters unless an explicit minLength rule already
\* produced a 'too short' warning for it, hence also when a minLength rule is
\* present but satisfied; the generic long-input warning (+15) is added for
\* every input longer than 2048 characters unless an explicit maxLength rule
\* already produced a 'too long' warning.
C24_HeuristicLengthWarnings ==
  (call.op = "validate" /\ call.input # <<>>) =>
    LET w == result.validation.warnings
    IN /\ (Len(call.input) < 16 /\ ~Warned(w, "TOO_SHORT")) =>
            \E i \in DOMAIN w : w[i].tag = "VERY_SHORT" /\ w[i].score = 25
       /\ (Len(call.input) > 2048 /\ ~Warned(w, "TOO_LONG")) =>
            \E i \in DOMAIN w : w[i].tag = "VERY_LONG" /\ w[i].score = 15

(***************************************************************************)
(* Classification by the static table and the heuristic (SpecDetect)       *)
(***************************************************************************)
\* The last call was a detect call that neither the per-call prefixes nor the
\* registry answered.
DetectPastCustom ==
  /\ call.op = "detect"
  /\ call.input # <<>>
  /\ FirstEntry(call.customPrefixes, call.input) = 0
  /\ FirstEntry(registry, call.input) = 0

LooksLikeToken(input) ==
  /\ Len(input) >= 16
  /\ \A i \in DOMAIN input : input[i] \notin Whitespace
  /\ \A i \in DOMAIN input :
       input[i] \in Lower \cup Upper \cup Digit \cup {"_", ".", "-", "/", "+", "="}
  /\ 10 * Cardinality({ input[i] : i \in DOMAIN input }) >= 3 * Len(input)

VariableLengthDone ==
  /\ StandardDone
  /\ result.opts.fixedLength = Bool(FALSE)
  /\ Len(result.opts.maskChar) = 1
  /\ Len(result.trace.secret) >= 1

\* C26 (as stated): with fixedLength false and a single-character maskChar,
\* for every input whose secret is non-empty and every showHead >= 0 and
\* showTail >= 0, the output has the same length as the input.
C26_AsStated == VariableLengthDone => Len(result.masked) = Len(call.input)

\* C26: with fixedLength false and a single-character maskChar, the Standard
\* strategy masks exactly the characters between head and tail: for every
\* secret of length >= 2, and for a secret of length 1 when showHead =
\* showTail = 0, the output has the same length as the input, each hidden
\* secret character being replaced by one mask character; a secret of length
\* 1 with showHead or showTail above 0 is replaced by 8 mask characters.
C26_VariableLengthKeepsLength ==
  VariableLengthDone =>
    LET t == result.trace
        o == result.opts
        L == Len(t.secret)
    IN IF L >= 2 \/ (o.showHead = 0 /\ o.showTail = 0)
         THEN /\ Len(result.masked) = Len(call.input)
              /\ t.maskCount = L - t.headChars - t.tailChars
              /\ result.masked
                   = t.prefix \o SubSeq(t.secret, 1, t.headChars)
                     \o Repeat(o.maskChar, L - t.headChars - t.tailChars)
                     \o SubSeq(t.secret, L - t.tailChars + 1, L)
         ELSE result.masked = t.prefix \o Repeat(o.maskChar, 8)

\* A kept prefix, a head and a tail around more than one hidden character.
C26_Witness ==
  /\ VariableLengthDone
  /\ result.trace.prefix # <<>>
  /\ result.trace.headChars > 0
  /\ result.trace.tailChars > 0
  /\ result.trace.maskCount > 1
  /\ Len(result.masked) = Len(call.input)

(***************************************************************************)
(* The order of the registry (Spec)                                        *)
(***************************************************************************)
\* The prefixes of the registry in its order.
PrefixOrder(reg) == [i \in DOMAIN reg |-> reg[i].prefix]

\* C28: the registry keeps its prefixes in the order of their first
\* registration: a successful registerPrefix of a new prefix puts it last and
\* of an existing prefix leaves the order as it is; and when several
\* registered prefixes match an input, detect returns the earliest of them in
\* that order, also when a longer matching prefix comes after it.
C28_EarliestRegisteredWins ==
  [][/\ (call'.op = "registerPrefix" /\ ~result'.threw) =>
          PrefixOrder(registry')
            = IF \E i \in DOMAIN registry : registry[i].prefix = call'.prefix
                THEN PrefixOrder(registry)
                ELSE Append(PrefixOrder(registry), call'.prefix)
     /\ (/\ call'.op = "detect"
         /\ call'.input # <<>>
         /\ \A k \in DOMAIN call'.customPrefixes :
              ~StartsWith(call'.input, call'.customPrefixes[k].prefix)) =>
          \A i \in DOMAIN registry :
            (/\ StartsWith(call'.input, registry[i].prefix)
             /\ \A j \in 1..(i - 1) : ~StartsWith(call'.input, registry[j].prefix)) =>
              /\ result'.metadata.prefix = registry[i].prefix
              /\ result'.metadata.type = registry[i].name
    ]_vars

\* A shorter prefix registered first answers before a longer one that matches.
C28_Witness ==
  /\ call.op = "detect"
  /\ call.customPrefixes = <<>>
  /\ Len(registry) = 2
  /\ StartsWith(call.input, registry[1].prefix)
  /\ StartsWith(call.input, registry[2].prefix)
  /\ Len(registry[2].prefix) > Len(registry[1].prefix)
  /\ result.metadata.prefix = registry[1].prefix

(***************************************************************************)
(* Score and validity (SpecValidate)                                       *)
(***************************************************************************)
\* C29: for every input and every rule set, the result of validate has
\* riskScore = 0 if and only if valid is true, that is, the warnings list is
\* empty: every warning carries a strictly positive weight and no weight is
\* added without a warning.
C29_ZeroScoreIffValid ==
  (call.op = "validate") =>
    LET v == result.validation
    IN /\ v.valid <=> v.warnings = <<>>
       /\ v.riskScore = 0 <=> v.valid
       /\ \A i \in DOMAIN v.warnings : v.warnings[i].score > 0
       /\ v.riskScore > 0 => \E i \in DOMAIN v.warnings : v.riskScore >= v.warnings[i].score

\* An input that fails only the lightest rule, maxLength.
C29_Witness ==
  /\ call.op = "validate"
  /\ Has(call.rules, "maxLength")
  /\ Len(call.input) > call.rules.maxLength
  /\ Len(result.validation.warnings) = 1
  /\ result.validation.riskScore = RISK_WEIGHTS.TOO_LONG
  /\ ~result.validation.valid

(***************************************************************************)
(* The detected prefix and the hasPrefix flag (Spec)                       *)
(***************************************************************************)
\* C30: whenever detect returns a non-null prefix, for any per-call
\* customPrefixes map and any registry contents, that prefix is a non-empty
\* leading substring of the input; consequently the hasPrefix flag of the
\* result record is true only if the Standard strategy with preservePrefix
\* true strips a non-empty prefix.
C30_PrefixIsNonEmptyLeadingSubstring ==
  (call.op \in {"detect", "mask"} /\ ~result.threw) =>
    /\ ~result.metadata.prefixNull =>
         /\ result.metadata.prefix # <<>>
         /\ StartsWith(call.input, result.metadata.prefix)
    /\ (call.op = "mask" /\ result.original.hasPrefix) =>
         extractPrefix(call.input, result.metadata,
                       [result.opts EXCEPT !.preservePrefix = PrefixBool(TRUE)]).prefix # <<>>

====
